---------------------------- MODULE Spec2Model ----------------------------
(***************************************************************************)
(* Model of impreproc/camera.py: the pinhole Camera object, its geometry   *)
(* conversions, the projection-matrix factorisation and the calibration    *)
(* readers; of impreproc/djimrk.py: the EXIF records of a folder and their *)
(* merge with the .mrk records; and of ImageRenamer in impreproc/rename.py *)
(* and impreproc/renaming.py.                                              *)
(*                                                                         *)
(* numpy arrays are records [dtype, shape, v]: v holds the rows of a 2-D   *)
(* array or the entries of a 1-D array.  Entries are integers: every       *)
(* matrix of the model (signed permutation rotations, integer              *)
(* translations, integer calibration matrices) is exactly representable in *)
(* double precision, and every product the code forms on them is exact.    *)
(*                                                                         *)
(* A call's outcome is a record [err, val, logged]: the exception raised   *)
(* ("none" when the call returns), the value returned and whether          *)
(* logging.error was called.                                               *)
(***************************************************************************)
EXTENDS Integers, Sequences, FiniteSets, TLC

VARIABLES
    cam,      \* the Camera object: its attributes, or NoCamera
    op,       \* name of the last operation called
    arg,      \* argument of the last operation
    ret,      \* value the last operation returned (NoneVal when it raised)
    err,      \* exception the last operation raised, "none" when it returned
    logged,   \* whether the last operation called logging.error
    from,     \* argument of the earlier call whose result this call was given
    rq,       \* what linalg.rq returned inside the last factor_P
    disk,     \* the image files: the originals and the destination folder
    run       \* the ImageRenamer and the progress of its running call

vars == <<cam, op, arg, ret, err, logged, from, rq, disk, run>>

-----------------------------------------------------------------------------
(* Bounds of the model *)

\* an ImageRenamer is given 1 .. MaxImages images
MaxImages == 2
\* whose EXIF date-times, to the second, are among 1 .. MaxStamp
MaxStamp == 2
\* translations and centres have coordinates in -MaxCoord .. MaxCoord
MaxCoord == 1
\* calibration files hold 0 .. MaxTokens tokens
MaxTokens == 20
\* the distortion text of an XML calibration holds 0 .. MaxDist tokens
MaxDist == 8
\* a folder holds 0 .. MaxFiles image files
MaxFiles == 2

-----------------------------------------------------------------------------
(* Exceptions *)

NoErr == "none"
AssertionError == "AssertionError"
ValueError == "ValueError"
TypeError == "TypeError"
IndexError == "IndexError"
AttributeError == "AttributeError"
KeyError == "KeyError"
LookupError == "LookupError"
\* what OpenCV raises when it refuses its arguments
cv2_error == "cv2.error"
\* a subclass of OSError
FileNotFoundError == "FileNotFoundError"
\* `None @ ndarray`: numpy raises TypeError or ValueError depending on its
\* version; the model keeps the two apart from every other exception.
NoneOperandError == "TypeError|ValueError"

\* an OSError raised by the file system (copy to a folder that is gone, ...)
OSError == "OSError"
RuntimeError == "RuntimeError"
\* reading a local variable that was never assigned
UnboundLocalError == "UnboundLocalError"

\* isinstance(e, cls) for a raised e: IndexError and KeyError are subclasses
\* of LookupError
IsInstance(e, cls) ==
    \/ e = cls
    \/ cls = LookupError /\ e \in {IndexError, KeyError}

-----------------------------------------------------------------------------
(* numpy values *)

NoneVal == [dtype |-> "NoneType", shape |-> <<>>, v |-> <<>>]

Mat(rows) == [dtype |-> "float64", shape |-> <<Len(rows), Len(rows[1])>>, v |-> rows]

Vec(xs) == [dtype |-> "float64", shape |-> <<Len(xs)>>, v |-> xs]

Scalar(x) == [dtype |-> "float64", shape |-> <<>>, v |-> <<x>>]

AsType(a, dt) == [a EXCEPT !.dtype = dt]

IsNone(a) == a.dtype = "NoneType"

Ndim(a) == Len(a.shape)

Min(a, b) == IF a < b THEN a ELSE b

\* np.eye(n)
Eye(n) == Mat([i \in 1..n |-> [j \in 1..n |-> IF i = j THEN 1 ELSE 0]])

\* np.zeros((r, c))
Zeros(r, c) == Mat([i \in 1..r |-> [j \in 1..c |-> 0]])

\* a[r0:r1, c0:c1] of a 2-D array; numpy clamps a slice to the array
Slice(a, r0, r1, c0, c1) ==
    LET nr == IF Min(r1, a.shape[1]) > r0 THEN Min(r1, a.shape[1]) - r0 ELSE 0
        nc == IF Min(c1, a.shape[2]) > c0 THEN Min(c1, a.shape[2]) - c0 ELSE 0
    IN  [dtype |-> a.dtype, shape |-> <<nr, nc>>,
         v |-> [i \in 1..nr |-> [j \in 1..nc |-> a.v[r0 + i][c0 + j]]]]

\* a.T of a 2-D array
Transpose(a) ==
    [dtype |-> a.dtype, shape |-> <<a.shape[2], a.shape[1]>>,
     v |-> [j \in 1..a.shape[2] |-> [i \in 1..a.shape[1] |-> a.v[i][j]]]]

\* -a of a 2-D array
Neg(a) ==
    [a EXCEPT !.v = [i \in 1..a.shape[1] |-> [j \in 1..a.shape[2] |-> 0 - a.v[i][j]]]]

RECURSIVE DotSum(_, _, _, _, _)
DotSum(a, b, i, j, k) ==
    IF k = 0 THEN 0 ELSE a.v[i][k] * b.v[k][j] + DotSum(a, b, i, j, k - 1)

\* the product of two 2-D arrays whose inner dimensions agree
Prod(a, b) ==
    [dtype |-> "float64", shape |-> <<a.shape[1], b.shape[2]>>,
     v |-> [i \in 1..a.shape[1] |-> [j \in 1..b.shape[2] |->
                DotSum(a, b, i, j, a.shape[2])]]]

\* t.reshape(3, 1) of an array of three elements, 1-D or 1x3
Reshape31(t) ==
    LET flat == IF Ndim(t) = 1 THEN t.v ELSE t.v[1]
    IN  [dtype |-> t.dtype, shape |-> <<3, 1>>, v |-> [i \in 1..3 |-> <<flat[i]>>]]

\* linalg.det of a 3x3 matrix
Det3(m) ==
    LET a == m.v
    IN    a[1][1] * (a[2][2] * a[3][3] - a[2][3] * a[3][2])
        - a[1][2] * (a[2][1] * a[3][3] - a[2][3] * a[3][1])
        + a[1][3] * (a[2][1] * a[3][2] - a[2][2] * a[3][1])

-----------------------------------------------------------------------------
(* Outcomes of a call *)

Ok(x) == [err |-> NoErr, val |-> x, logged |-> FALSE]

Raise(e) == [err |-> e, val |-> NoneVal, logged |-> FALSE]

\* np.dot(a, b): with a None operand the scalar product None * float raises
np_dot(a, b) ==
    IF IsNone(a) \/ IsNone(b) THEN Raise(TypeError)
    ELSE IF a.shape[2] # b.shape[1] THEN Raise(ValueError)
    ELSE Ok(Prod(a, b))

\* a @ b
matmul(a, b) ==
    IF IsNone(a) \/ IsNone(b) THEN Raise(NoneOperandError)
    ELSE IF a.shape[2] # b.shape[1] THEN Raise(ValueError)
    ELSE Ok(Prod(a, b))

\* run F on the value of outcome o unless o raised; logging accumulates
Then(o, F(_)) ==
    IF o.err # NoErr THEN o
    ELSE LET n == F(o.val) IN [n EXCEPT !.logged = o.logged \/ n.logged]

-----------------------------------------------------------------------------
(* GeometryOps: Camera's matrix helpers *)

\* np.block([[mat, np.zeros((3, 1))], [np.zeros((1, 3)), 1]])
BlockRot(mat) ==
    IF mat.shape[1] # 3 THEN Raise(ValueError)
    ELSE Ok(Mat([i \in 1..4 |->
                   IF i = 4 THEN <<0, 0, 0, 1>> ELSE mat.v[i] \o <<0>>]))

\* np.block([[np.eye(3), mat], [np.zeros((1, 3)), 1]])
BlockTrans(mat) ==
    IF mat.shape[1] # 3 THEN Raise(ValueError)
    ELSE Ok(Mat([i \in 1..4 |->
                   IF i = 4 THEN <<0, 0, 0, 1>> ELSE Eye(3).v[i] \o mat.v[i]]))

build_block_matrix(mat) ==
    IF IsNone(mat) THEN Raise(AttributeError)
    ELSE IF Ndim(mat) < 2 THEN Raise(IndexError)
    ELSE IF mat.shape[2] = 3 THEN BlockRot(mat)
    ELSE IF mat.shape[2] = 1 THEN BlockTrans(mat)
    ELSE [err |-> NoErr, val |-> NoneVal, logged |-> TRUE]

\* extrinsics_to_pose with the two blocks multiplied in the opposite order
extrinsics_to_pose_swapped(self, extrinsics) ==
    LET ext == IF IsNone(extrinsics) THEN self._extrinsics ELSE extrinsics
        R == Slice(ext, 0, 3, 0, 3)
        t == Slice(ext, 0, 3, 3, 4)
        Rc == Transpose(R)
    IN  Then(np_dot(Rc, t), LAMBDA d :
        LET C == Neg(d) IN
        Then(build_block_matrix(Rc), LAMBDA Rc_block :
        Then(build_block_matrix(C), LAMBDA C_block :
        np_dot(Rc_block, C_block))))

\* extrinsics_to_pose with the centre left as Rc t, not negated
extrinsics_to_pose_unnegated(self, extrinsics) ==
    LET ext == IF IsNone(extrinsics) THEN self._extrinsics ELSE extrinsics
        R == Slice(ext, 0, 3, 0, 3)
        t == Slice(ext, 0, 3, 3, 4)
        Rc == Transpose(R)
    IN  Then(np_dot(Rc, t), LAMBDA d :
        LET C == d IN
        Then(build_block_matrix(Rc), LAMBDA Rc_block :
        Then(build_block_matrix(C), LAMBDA C_block :
        np_dot(C_block, Rc_block))))

extrinsics_to_pose(self, extrinsics) ==
    LET ext == IF IsNone(extrinsics) THEN self._extrinsics ELSE extrinsics
        R == Slice(ext, 0, 3, 0, 3)
        t == Slice(ext, 0, 3, 3, 4)
        Rc == Transpose(R)
    IN  Then(np_dot(Rc, t), LAMBDA d :
        LET C == Neg(d) IN
        Then(build_block_matrix(Rc), LAMBDA Rc_block :
        Then(build_block_matrix(C), LAMBDA C_block :
        np_dot(C_block, Rc_block))))

pose_to_extrinsics(pose) ==
    LET Rc == Slice(pose, 0, 3, 0, 3)
        C == Slice(pose, 0, 3, 3, 4)
        R == Transpose(Rc)
    IN  Then(matmul(Neg(R), C), LAMBDA t :
        Then(build_block_matrix(t), LAMBDA t_block :
        Then(build_block_matrix(R), LAMBDA R_block :
        matmul(t_block, R_block))))

\* lines 366-368: the normalisation of t to a column
NormaliseT(t) ==
    IF Ndim(t) = 1 \/ t.shape = <<1, 3>>
    THEN IF t.shape[1] = 3 THEN Ok(Reshape31(t)) ELSE Raise(AssertionError)
    ELSE Ok(t)

\* Rt_to_extrinsics with the rotation block applied after the translation
\* block
Rt_to_extrinsics_swapped(R, t) ==
    Then(NormaliseT(t), LAMBDA tc :
    Then(build_block_matrix(R), LAMBDA R_block :
    Then(build_block_matrix(tc), LAMBDA t_block :
    matmul(R_block, t_block))))

Rt_to_extrinsics(R, t) ==
    Then(NormaliseT(t), LAMBDA tc :
    Then(build_block_matrix(R), LAMBDA R_block :
    Then(build_block_matrix(tc), LAMBDA t_block :
    matmul(t_block, R_block))))

\* [[R, t], [0, 0, 0, 1]] for a 3x3 R and the three numbers tv
Homog(R, tv) ==
    Mat([i \in 1..4 |-> IF i = 4 THEN <<0, 0, 0, 1>> ELSE R.v[i] \o <<tv[i]>>])

\* C.T is C itself for a 1-D array; pose[0:3, 3:4] = C raises ValueError
\* when C cannot be broadcast to the 3x1 block, as for an array of shape (3,)
build_pose_matrix(R, C) ==
    IF R.shape # <<3, 3>> THEN Raise(ValueError)
    ELSE IF C.shape \notin {<<3>>, <<1, 3>>, <<3, 1>>} THEN Raise(ValueError)
    ELSE LET Ct == IF C.shape = <<1, 3>> THEN Transpose(C) ELSE C
         IN  IF Ct.shape # <<3, 1>> THEN Raise(ValueError)
             ELSE Ok(Homog(R, [i \in 1..3 |-> Ct.v[i][1]]))

-----------------------------------------------------------------------------
(* CameraModel: the Camera object *)

\* an attribute that was never assigned
Absent == [dtype |-> "absent", shape |-> <<>>, v |-> <<>>]

NoCamera ==
    [exists |-> FALSE, _w |-> Absent, _h |-> Absent, _K |-> Absent,
     _dist |-> Absent, _extrinsics |-> Absent, _width |-> Absent,
     _height |-> Absent]

reset_EO(self) == [self EXCEPT !._extrinsics = Eye(4)]

\* update_K that also resets the exterior orientation
update_K_and_reset(self, K) == [self EXCEPT !._K = K, !._extrinsics = Eye(4)]

update_K(self, K) == [self EXCEPT !._K = K]

update_dist(self, dist) == [self EXCEPT !._dist = dist]

\* update_extrinsics without the check of the precision
update_extrinsics_any_dtype(self, extrinsics) ==
    IF IsNone(extrinsics) THEN Raise(AttributeError)
    ELSE IF extrinsics.shape # <<4, 4>> THEN Raise(AssertionError)
    ELSE IF extrinsics.v[4] # <<0, 0, 0, 1>> THEN Raise(AssertionError)
    ELSE Ok([self EXCEPT !._extrinsics = extrinsics])

\* the value of an outcome is the camera after the call
update_extrinsics(self, extrinsics) ==
    IF IsNone(extrinsics) THEN Raise(AttributeError)
    ELSE IF extrinsics.shape # <<4, 4>> THEN Raise(AssertionError)
    ELSE IF extrinsics.dtype # "float64" THEN Raise(AssertionError)
    ELSE IF extrinsics.v[4] # <<0, 0, 0, 1>> THEN Raise(AssertionError)
    ELSE Ok([self EXCEPT !._extrinsics = extrinsics])

\* the stored fields, as the properties return them
Camera_width(self) == Ok(self._w)

Camera_height(self) == Ok(self._h)

Camera_K(self) == Ok(self._K)

Camera_dist(self) == Ok(self._dist)

Camera_extrinsics(self) == Ok(self._extrinsics)

\* the derived views, recomputed by every read
Camera_pose(self) == extrinsics_to_pose(self, NoneVal)

\* the centre read as the negated translation, the rotation left out
Camera_C_unrotated(self) == Ok(Neg(Slice(self._extrinsics, 0, 3, 3, 4)))

Camera_C(self) ==
    Then(extrinsics_to_pose(self, NoneVal), LAMBDA pose :
    Ok(Slice(pose, 0, 3, 3, 4)))

Camera_t(self) == Ok(Slice(self._extrinsics, 0, 3, 3, 4))

Camera_R(self) == Ok(Slice(self._extrinsics, 0, 3, 0, 3))

\* RT = np.zeros((3, 4)); RT[:, 0:3] = self.R; RT[:, 3:4] = self.t
\* (an assignment of a block of another shape raises: the blocks a camera
\* of the model can hold are never of a shape numpy would broadcast)
StackRt(R, t) ==
    IF R.shape # <<3, 3>> \/ t.shape # <<3, 1>> THEN Raise(ValueError)
    ELSE Ok(Mat([i \in 1..3 |-> R.v[i] \o t.v[i]]))

Camera_P(self) ==
    Then(Camera_R(self), LAMBDA R :
    Then(Camera_t(self), LAMBDA t :
    Then(StackRt(R, t), LAMBDA RT :
    matmul(self._K, RT))))

-----------------------------------------------------------------------------
(* Projector: project_point.  The projection itself is OpenCV's: the model *)
(* keeps the shapes of what cv2 returns and leaves the numbers opaque.     *)

\* cv2.Rodrigues(R)[0]: the rotation vector of a 3x3 matrix
cv2_Rodrigues(R) ==
    IF R.shape # <<3, 3>> THEN Raise(cv2_error)
    ELSE Ok([dtype |-> "float64", shape |-> <<3, 1>>, v |-> <<"rvec", R.v>>])

\* cv2.projectPoints(np.expand_dims(points3d, 1), rvec, tvec, K, dist)[0]
\* [:, 0, :]: one pixel for each of the n points.  OpenCV needs a 3x3 camera
\* matrix, three translations and no or 4, 5, 8, 12 or 14 distortion
\* coefficients; for no point it returns no pixel.
cv2_projectPoints(points3d, rvec, tvec, K, dist) ==
    IF IsNone(K) \/ K.shape # <<3, 3>> THEN Raise(cv2_error)
    ELSE IF tvec.shape # <<3, 1>> THEN Raise(cv2_error)
    ELSE IF ~IsNone(dist) /\ dist.shape \notin {<<4>>, <<5>>, <<8>>, <<12>>, <<14>>}
    THEN Raise(cv2_error)
    ELSE Ok([dtype |-> "float64", shape |-> <<points3d.shape[1], 2>>,
             v |-> [i \in 1..points3d.shape[1] |->
                      << [pixel |-> "u", of |-> points3d.v[i]],
                         [pixel |-> "v", of |-> points3d.v[i]] >>]])

project_point(self, points3d) ==
    \* points3d.shape[1] of a 1-D array
    IF Ndim(points3d) < 2 THEN Raise(IndexError)
    ELSE IF points3d.shape[2] # 3 THEN Raise(AssertionError)
    ELSE Then(Camera_R(self), LAMBDA R :
         Then(cv2_Rodrigues(R), LAMBDA rvec :
         Then(Camera_t(self), LAMBDA tvec :
         Then(cv2_projectPoints(points3d, rvec, tvec, self._K, self._dist),
              LAMBDA m : Ok(AsType(m, "float32"))))))

-----------------------------------------------------------------------------
(* MatrixFactorizer: factor_P *)

\* the 48 orthogonal matrices with entries in {-1, 0, 1}
Orthogonal48 ==
    { Mat([i \in 1..3 |-> [j \in 1..3 |-> IF j = p[i] THEN s[i] ELSE 0]]) :
        p \in { q \in [1..3 -> 1..3] : \A i, j \in 1..3 : q[i] = q[j] => i = j },
        s \in [1..3 -> {-1, 1}] }

IsUpperTriangular(m) == \A i, j \in 1..3 : i > j => m.v[i][j] = 0

\* linalg.rq(M) returns an upper-triangular K0 and an orthogonal R0 with
\* K0 @ R0 == M; the factorisation of an invertible M is unique up to the
\* signs of K0's diagonal, and which one LAPACK returns is not specified.
\* RQ(M) is the set of the factorisations of M with R0 in Orthogonal48.
RQ(M) ==
    { <<Prod(M, Transpose(R0)), R0>> : R0 \in
        { Q \in Orthogonal48 :
            LET K0 == Prod(M, Transpose(Q))
            IN  IsUpperTriangular(K0) /\ \A i \in 1..3 : K0.v[i][i] # 0 } }

Sign(x) == IF x > 0 THEN 1 ELSE IF x < 0 THEN -1 ELSE 0

\* lines 348-350: T = np.diag(np.sign(np.diag(K))), T[1, 1] flipped when
\* linalg.det(T) < 0
SignMatrix(K0) ==
    LET T0 == Mat([i \in 1..3 |-> [j \in 1..3 |->
                     IF i = j THEN Sign(K0.v[i][i]) ELSE 0]])
    IN  IF Det3(T0) < 0
        THEN [T0 EXCEPT !.v[2][2] = 0 - T0.v[2][2]]
        ELSE T0

\* np.dot(linalg.inv(K), b).reshape(3, 1) for an invertible upper-triangular
\* K, by back substitution; every quotient of the model is exact
InvDot(K, b) ==
    LET k == K.v
        t3 == b[3] \div k[3][3]
        t2 == (b[2] - k[2][3] * t3) \div k[2][2]
        t1 == (b[1] - k[1][2] * t2 - k[1][3] * t3) \div k[1][1]
    IN  Mat(<< <<t1>>, <<t2>>, <<t3>> >>)

\* factor_P with the sign matrix applied to K only
factor_P_unsigned_R(self, f) ==
    Then(Camera_P(self), LAMBDA P :
    LET T == SignMatrix(f[1])
        K == Prod(f[1], T)
        R == f[2]
        t == InvDot(K, [i \in 1..3 |-> P.v[i][4]])
    IN  Ok(<<K, R, t>>))

\* factor_P with f the pair linalg.rq returned; the value is <<K, R, t>>
factor_P(self, f) ==
    Then(Camera_P(self), LAMBDA P :
    LET T == SignMatrix(f[1])
        K == Prod(f[1], T)
        R == Prod(T, f[2])
        t == InvDot(K, [i \in 1..3 |-> P.v[i][4]])
    IN  Ok(<<K, R, t>>))

-----------------------------------------------------------------------------
(* CalibrationLoader: the plain-text reader *)

\* a path: given (not None), whether the file exists, and the tokens of its
\* single line
NoPath == [given |-> FALSE, exists |-> FALSE, tokens |-> <<>>]

MissingFile == [given |-> TRUE, exists |-> FALSE, tokens |-> <<>>]

FileOf(toks) == [given |-> TRUE, exists |-> TRUE, tokens |-> toks]

\* data[a:b] of the 1-D token array, a and b as in Python
Tokens(data, a, b) == [i \in 1..(b - a) |-> data[a + i]]

\* the value is <<w, h, K, dist>>
read_opencv_calibration(path) ==
    LET data == path.tokens
        n == Len(data)
    IN  IF ~path.exists THEN Raise(ValueError)
        \* np.loadtxt gives shape (0,) for no token and a 0-d array for one:
        \* data[0] raises IndexError on both
        ELSE IF n < 2 THEN Raise(IndexError)
        \* data[2:11].reshape(3, 3) of fewer than 9 values
        ELSE IF n < 11 THEN Raise(ValueError)
        ELSE LET w == Scalar(data[1])
                 h == Scalar(data[2])
                 K == Mat([i \in 1..3 |-> Tokens(data, 2 + 3 * (i - 1), 5 + 3 * (i - 1))])
             IN  IF n = 15 THEN Ok(<<w, h, K, Vec(Tokens(data, 11, 15))>>)
                 ELSE IF n = 16 THEN Ok(<<w, h, K, Vec(Tokens(data, 11, 16))>>)
                 ELSE IF n = 19 THEN Ok(<<w, h, K, Vec(Tokens(data, 11, 19))>>)
                 ELSE Raise(ValueError)

\* the value of the outcome is the camera after the call
read_calibration_from_file(self, path) ==
    Then(read_opencv_calibration(path), LAMBDA c :
    Ok([self EXCEPT !._width = c[1], !._height = c[2],
                    !._K = c[3], !._dist = c[4]]))

\* Camera.__init__ with R and t applied after the extrinsics argument
Camera_init_Rt_last(width, height, K, dist, R, t, extrinsics, calib_path) ==
    LET s0 == reset_EO([NoCamera EXCEPT !.exists = TRUE, !._w = width,
                           !._h = height, !._K = K, !._dist = dist])
        s1 == IF ~IsNone(extrinsics)
              THEN [s0 EXCEPT !._extrinsics = extrinsics]
              ELSE s0
        o2 == IF ~IsNone(R) /\ ~IsNone(t)
              THEN Then(Rt_to_extrinsics(R, t), LAMBDA e :
                        Ok([s1 EXCEPT !._extrinsics = e]))
              ELSE Ok(s1)
    IN  Then(o2, LAMBDA s2 :
        IF calib_path.given
        THEN read_calibration_from_file(s2, calib_path)
        ELSE Ok(s2))

\* Camera.__init__; the value of the outcome is the new camera
Camera_init(width, height, K, dist, R, t, extrinsics, calib_path) ==
    LET s0 == reset_EO([NoCamera EXCEPT !.exists = TRUE, !._w = width,
                           !._h = height, !._K = K, !._dist = dist])
        o1 == IF ~IsNone(R) /\ ~IsNone(t)
              THEN Then(Rt_to_extrinsics(R, t), LAMBDA e :
                        Ok([s0 EXCEPT !._extrinsics = e]))
              ELSE Ok(s0)
    IN  Then(o1, LAMBDA s1 :
        LET s2 == IF ~IsNone(extrinsics)
                  THEN [s1 EXCEPT !._extrinsics = extrinsics]
                  ELSE s1
        IN  IF calib_path.given
            THEN read_calibration_from_file(s2, calib_path)
            ELSE Ok(s2))

-----------------------------------------------------------------------------
(* CalibrationLoader: the sensor-width database and the EXIF estimate *)

\* a string is the sequence of its words; a word is its lower-case spelling
\* and whether it is written in capitals
Word(w, caps) == [w |-> w, caps |-> caps]

\* str.lower()
Lower(s) == [i \in 1..Len(s) |-> [s[i] EXCEPT !.caps = FALSE]]

\* the csv file of the database: whether it exists, and its rows
NoCsv == [exists |-> FALSE, rows |-> <<>>]

CsvOf(rows) == [exists |-> TRUE, rows |-> rows]

\* SensorWidthDatabase.__init__: pd.read_csv, then the two columns in lower
\* case; the value is the data frame
SensorWidthDatabase(csv) ==
    IF ~csv.exists THEN Raise(FileNotFoundError)
    ELSE Ok([i \in 1..Len(csv.rows) |->
                [csv.rows[i] EXCEPT !.CameraMaker = Lower(@),
                                    !.CameraModel = Lower(@)]])

\* SensorWidthDatabase.lookup on the data frame df
\* lookup that returns the first matching row when several rows match
lookup_first(df, make, model) ==
    IF Len(make) = 0 THEN Raise(IndexError)
    ELSE LET lower_make == Lower(<<make[1]>>)
             lower_model == Lower(model)
             selected == { i \in 1..Len(df) :
                             /\ df[i].CameraMaker = lower_make
                             /\ df[i].CameraModel = lower_model }
         IN  IF selected = {} THEN Raise(LookupError)
             ELSE Ok(df[CHOOSE i \in selected : \A j \in selected : i <= j].SensorWidth)

lookup(df, make, model) ==
    \* make.split()[0] of a string without a word
    IF Len(make) = 0 THEN Raise(IndexError)
    ELSE LET lower_make == Lower(<<make[1]>>)
             lower_model == Lower(model)
             selected == { i \in 1..Len(df) :
                             /\ df[i].CameraMaker = lower_make
                             /\ df[i].CameraModel = lower_model }
         IN  IF Cardinality(selected) # 1 THEN Raise(LookupError)
             ELSE Ok(df[CHOOSE i \in selected : TRUE].SensorWidth)

Max(a, b) == IF a > b THEN a ELSE b

\* an exif mapping: the keys it holds and the tags under them
HasKey(exif, k) == k \in exif.keys

\* get_intrinsics_from_exif with the database read from csv: each of the
\* three try blocks catches OSError only.  The value is <<w, h, K, dist>>;
\* the quotients of the model are exact.
get_intrinsics_from_exif(exif, csv) ==
    IF ~HasKey(exif, "EXIF FocalLength") THEN Raise(KeyError)
    ELSE LET db == SensorWidthDatabase(csv) IN
    IF db.err = FileNotFoundError
    THEN [err |-> NoErr, val |-> NoneVal, logged |-> TRUE]
    ELSE IF ~HasKey(exif, "Image Make") \/ ~HasKey(exif, "Image Model")
    THEN Raise(KeyError)
    ELSE Then(lookup(db.val, exif.Make, exif.Model), LAMBDA sensor_width_mm :
         IF ~HasKey(exif, "EXIF ExifImageWidth")
            \/ ~HasKey(exif, "EXIF ExifImageLength")
         THEN Raise(KeyError)
         ELSE LET img_w_px == exif.ExifImageWidth
                  img_h_px == exif.ExifImageLength
                  focal_length_px ==
                      (Max(img_h_px, img_w_px) * exif.FocalLength)
                          \div sensor_width_mm
                  center_x == img_w_px \div 2
                  center_y == img_h_px \div 2
              IN  Ok(<< Scalar(img_w_px), Scalar(img_h_px),
                        Mat(<< <<focal_length_px, 0, center_x>>,
                               <<0, focal_length_px, center_y>>,
                               <<0, 0, 1>> >>),
                        Vec(<<0, 0, 0, 0, 0>>) >>))

-----------------------------------------------------------------------------
(* CalibrationLoader: the Agisoft XML reader *)

\* the calibration document: the type_id attribute of root[3] and the texts
\* of root[1], root[2], root[3][3] and root[4][3] as their tokens
XmlOf(type_id, dist) ==
    [type_id |-> type_id, width |-> 640, height |-> 480,
     K |-> <<2, 0, 3, 0, 5, 4, 0, 0, 1>>, dist |-> dist]

\* np.array(xs) of a list of floats and Nones (each a Scalar or NoneVal): an
\* array of objects as soon as one entry is None
np_array(xs) ==
    IF \E i \in 1..Len(xs) : IsNone(xs[i])
    THEN [dtype |-> "object", shape |-> <<Len(xs)>>, v |-> xs]
    ELSE Vec([i \in 1..Len(xs) |-> xs[i].v[1]])

\* the value is <<w, h, K, dist>>
read_agisoft_xml_opencv(xml) ==
    IF xml.type_id # "opencv-matrix" THEN Raise(AssertionError)
    ELSE IF Len(xml.K) # 9 THEN Raise(ValueError)
    ELSE LET w == AsType(Scalar(xml.width), "int")
             h == AsType(Scalar(xml.height), "int")
             K == Mat([i \in 1..3 |-> Tokens(xml.K, 3 * (i - 1), 3 * i)])
             dist_ == xml.dist
             n == Len(dist_)
         IN  \* dist_[0], dist_[1], dist_[3], dist_[2]
             IF n < 4 THEN Raise(IndexError)
             ELSE LET k1 == Scalar(dist_[1])
                      k2 == Scalar(dist_[2])
                      p1 == Scalar(dist_[4])
                      p2 == Scalar(dist_[3])
                      k3 == IF n \in {5, 6} THEN Scalar(dist_[5]) ELSE NoneVal
                      k4 == IF n = 6 THEN Scalar(dist_[6]) ELSE NoneVal
                  IN  Ok(<<w, h, K, np_array(<<k1, k2, p1, p2, k3, k4>>)>>)

\* the value is the Camera returned; the copies of the four values that the
\* Calibration object keeps are left out
camera_from_file(filename, format) ==
    IF format = "agisoft-opencv"
    THEN Then(read_agisoft_xml_opencv(filename), LAMBDA c :
              Camera_init(c[1], c[2], c[3], c[4], NoneVal, NoneVal, NoneVal,
                          NoPath))
    ELSE Raise(ValueError)

-----------------------------------------------------------------------------
(* djimrk: the EXIF records of a folder of DJI images and their merge with *)
(* the records of a .mrk file.  A dict is a function from its keys; an     *)
(* image file is [name, last, opens, exif]: its name, the last             *)
(* "_"-separated token of its stem, whether Image(file) opens it and       *)
(* whether its EXIF position can be read.                                  *)

\* int(fname.stem.split("_")[-1])
get_dji_id_from_name(file) ==
    IF file.last.numeric THEN Ok(file.last.n) ELSE Raise(ValueError)

ExifData(id, name) == [dtype |-> "ExifData", id |-> id, name |-> name]

\* the loop of get_images from the k-th file on; bound tells whether the
\* local variable id has been assigned by an earlier pass, id is its value
RECURSIVE get_images_from(_, _, _, _, _)
get_images_from(files, k, exifdata, bound, id) ==
    IF k > Len(files) THEN Ok(exifdata)
    ELSE LET file == files[k]
             num == get_dji_id_from_name(file)
             \* the assignment `id = get_dji_id_from_name(file)` was done
             assigned == file.opens /\ num.err = NoErr
             id1 == IF assigned THEN num.val ELSE id
             raised == ~file.opens \/ num.err # NoErr \/ ~file.exif
         IN  IF ~raised
             THEN get_images_from(files, k + 1,
                      (id1 :> ExifData(id1, file.name)) @@ exifdata, TRUE, id1)
             \* except Exception: exifdata[id] = None
             ELSE IF ~(bound \/ assigned) THEN Raise(UnboundLocalError)
             ELSE get_images_from(files, k + 1,
                      (id1 :> NoneVal) @@ exifdata, TRUE, id1)

get_images(files) == get_images_from(files, 1, <<>>, FALSE, 0)

RECURSIVE merge_from(_, _, _, _)
merge_from(mrk_dict, exif_dict, keys, merged_dict) ==
    IF keys = {} THEN Ok(merged_dict)
    ELSE LET key == CHOOSE k \in keys : \A j \in keys : k <= j
             rest == keys \ {key}
             \* exif_dict[key]["name"]: None is not subscriptable
             name_exif == IF IsNone(exif_dict[key]) THEN Raise(TypeError)
                          ELSE Ok(exif_dict[key].name)
         IN  IF key \in DOMAIN exif_dict
             THEN Then(name_exif, LAMBDA name :
                      merge_from(mrk_dict, exif_dict, rest,
                          (key :> [dtype |-> "Merged",
                                   id |-> mrk_dict[key].id,
                                   lat_mrk |-> mrk_dict[key].lat,
                                   name_exif |-> name]) @@ merged_dict))
             ELSE merge_from(mrk_dict, exif_dict, rest,
                             (key :> NoneVal) @@ merged_dict)

merge_mrk_exif_data(mrk_dict, exif_dict) ==
    merge_from(mrk_dict, exif_dict, DOMAIN mrk_dict, <<>>)

-----------------------------------------------------------------------------
(* rename.py and renaming.py: ImageRenamer.  An image is [file, date_time]: *)
(* the path of the original and the date-time that Image(file) reads from  *)
(* its EXIF, to the second (None when there is none).  The images of a run *)
(* come from one camera and have one suffix.  The disk is [orig, dest]:    *)
(* the originals still present and the files of the destination folder,    *)
(* each a pair <<name, content>> whose content is the path of the image it *)
(* was written from.                                                       *)

\* name_from_exif(fname, base_name): the pair (new_name, dic)
name_from_exif(fname, base_name) ==
    IF IsNone(fname.date_time) THEN Raise(RuntimeError)
    ELSE LET new_name == [base_name |-> base_name,
                          date_time_str |-> fname.date_time.v[1],
                          camera_model |-> "NIKON_D800",
                          suffix |-> ".jpg"]
         IN  Ok(<<new_name, [old_name |-> fname.file, new_name |-> new_name]>>)

\* the partial that rename() and rename_fast() hand to the pool or call in
\* their loop: the function and the delete_original it is bound to
\* (copy_and_rename_overlay's default where the partial does not bind it)
func(self) ==
    IF self.method = "rename_fast"
    THEN [fn |-> "copy_and_rename_fast", delete_original |-> self.delete_original]
    ELSE [fn |-> "copy_and_rename_overlay",
          delete_original |-> IF self.impl = "rename.py" THEN FALSE
                              ELSE self.delete_original]

\* imap_unordered in the place of imap: the results in completion order
imap_unordered(out, order) == [k \in 1..Len(out) |-> out[order[k]].val]

\* list(p.imap(func, image_list)) followed by enumerate: the result of the
\* i-th task at index i, whatever the order in which the tasks completed
imap(out, order) == [i \in 1..Len(out) |-> out[i].val]

-----------------------------------------------------------------------------
(* Inputs *)

\* the 24 proper rotations among Orthogonal48
Rotations == { m \in Orthogonal48 : Det3(m) = 1 }

Translations == { <<x, y, z>> : x, y, z \in (0 - MaxCoord)..MaxCoord }

RigidMatrices == { Homog(R, tv) : R \in Rotations, tv \in Translations }

\* a block that is not orthonormal
Stretch == Mat(<< <<2, 0, 0>>, <<0, 1, 0>>, <<0, 0, 1>> >>)

GeomMatrices == RigidMatrices \cup { Homog(Stretch, tv) : tv \in Translations }

Rz90 == Mat(<< <<0, -1, 0>>, <<1, 0, 0>>, <<0, 0, 1>> >>)

Cyclic == Mat(<< <<0, 1, 0>>, <<0, 0, 1>>, <<1, 0, 0>> >>)

\* the rotations and translations a camera of the state machine is given
CamRotations == {Rz90, Cyclic}

CamTranslations == { <<x, y, z>> : x, y, z \in 0..MaxCoord }

CamExts == { Homog(R, tv) : R \in CamRotations, tv \in CamTranslations }

\* matrices update_extrinsics must refuse: 3x3, single precision, and last
\* rows other than [0, 0, 0, 1]
BadExts ==
    { Eye(3),
      AsType(Homog(Rz90, <<1, 0, 1>>), "float32"),
      [Homog(Rz90, <<1, 0, 1>>) EXCEPT !.v[4] = <<0, 0, 0, 0>>],
      [Homog(Cyclic, <<0, 1, 0>>) EXCEPT !.v[4] = <<0, 0, 1, 1>>] }

ExtArgs == CamExts \cup BadExts

KArgs ==
    { NoneVal,
      Mat(<< <<2, 0, 3>>, <<0, 2, 2>>, <<0, 0, 1>> >>),
      Mat(<< <<1, 1, 0>>, <<0, 3, 1>>, <<0, 0, 1>> >>) }

DistArgs == { NoneVal, Vec(<<1, 2, 3, 4>>) }

\* the translation 1, 0, 1 in every shape, and arrays that do not hold three
\* numbers
TShapes(x, y, z) ==
    { Vec(<<x, y, z>>),
      Mat(<< <<x, y, z>> >>),
      Mat(<< <<x>>, <<y>>, <<z>> >>),
      Vec(<<x, y>>),
      Vec(<<x, y, z, 1>>),
      Mat(<< <<x, y, z, 1>> >>),
      Mat(<< <<x>>, <<y>>, <<z>>, <<1>> >>),
      Mat(<< <<x>>, <<y>> >>),
      Mat(<< <<x, y>> >>),
      Mat(<< <<x, y, z>>, <<x, y, z>> >>),
      Mat(<< <<x, y, z>>, <<y, z, x>>, <<z, x, y>> >>) }

\* one calibration line: width height fx 0 cx 0 fy cy 0 0 1, then the
\* distortion values; the tokens after the K block are all different
Line(n) ==
    [i \in 1..n |->
        IF i <= 11 THEN <<640, 480, 2, 0, 3, 0, 5, 4, 0, 0, 1>>[i] ELSE i]

Files == { FileOf(Line(n)) : n \in 0..MaxTokens } \cup {MissingFile}

\* the paths a constructor of the state machine is given
CalibPaths ==
    { NoPath, MissingFile, FileOf(Line(1)), FileOf(Line(14)), FileOf(Line(15)),
      FileOf(Line(16)), FileOf(Line(19)) }

\* the translations a constructor of the state machine is given
CamTArgs ==
    { NoneVal, Vec(<<1, 0, 1>>), Mat(<< <<1, 0, 1>> >>),
      Mat(<< <<1>>, <<0>>, <<1>> >>), Vec(<<1, 0>>), Mat(<< <<1, 0, 1, 1>> >>) }

ExifKeys ==
    { "EXIF FocalLength", "Image Make", "Image Model", "EXIF ExifImageWidth",
      "EXIF ExifImageLength" }

\* the tags of a NIKON D800 picture of 640 x 480 pixels taken at 4 mm, under
\* the keys S
ExifOf(S) ==
    [keys |-> S, FocalLength |-> 4,
     Make |-> <<Word("nikon", TRUE), Word("corporation", TRUE)>>,
     Model |-> <<Word("nikon", TRUE), Word("d800", TRUE)>>,
     ExifImageWidth |-> 640, ExifImageLength |-> 480]

Row(maker, model, width) ==
    [CameraMaker |-> maker, CameraModel |-> model, SensorWidth |-> width]

D800 == Row(<<Word("nikon", TRUE)>>, <<Word("nikon", TRUE), Word("d800", TRUE)>>, 8)

D700 == Row(<<Word("nikon", TRUE)>>, <<Word("nikon", TRUE), Word("d700", TRUE)>>, 6)

\* no database file, and databases that hold the camera once, never and twice
SensorCsvs ==
    { NoCsv, CsvOf(<<D700, D800>>), CsvOf(<<D700>>), CsvOf(<<D800, D700, D800>>) }

ExifArgs == { <<ExifOf(S), csv>> : S \in SUBSET ExifKeys, csv \in SensorCsvs }

\* XML calibrations of both camera types, the distortion tokens all different
XmlArgs ==
    { XmlOf(ty, [i \in 1..n |-> 10 + i]) :
        ty \in {"opencv-matrix", "frame"}, n \in 0..MaxDist }

FormatArgs ==
    { <<xml, format>> : xml \in XmlArgs,
                        format \in {"agisoft-opencv", "opencv", "agisoft-xml"} }

\* R of three shapes and the camera centres in every shape of TShapes
PoseArgs ==
    { <<R, C>> : R \in CamRotations \cup {Stretch, Zeros(3, 4), Eye(4)},
                 C \in UNION { TShapes(tv[1], tv[2], tv[3]) : tv \in CamTranslations } }

\* point arrays of shape (2, 3), (0, 3), (2, 2), (2, 4) and (3,)
PointArgs ==
    { Mat(<< <<1, 2, 3>>, <<0, 1, 4>> >>),
      [dtype |-> "float64", shape |-> <<0, 3>>, v |-> <<>>],
      Mat(<< <<1, 2>>, <<0, 1>> >>),
      Mat(<< <<1, 2, 3, 1>>, <<0, 1, 4, 1>> >>),
      Vec(<<1, 2, 3>>) }

\* makes of no, one and two words, and models, in capitals and in lower case
MakeArgs ==
    { <<>>, <<Word("nikon", TRUE)>>, <<Word("nikon", FALSE)>>,
      <<Word("nikon", TRUE), Word("corporation", TRUE)>>,
      <<Word("corporation", TRUE), Word("nikon", TRUE)>>,
      <<Word("canon", FALSE)>> }

ModelArgs ==
    { <<Word("nikon", TRUE), Word("d800", TRUE)>>,
      <<Word("nikon", FALSE), Word("d800", FALSE)>>,
      <<Word("nikon", TRUE), Word("d700", FALSE)>>,
      <<Word("d800", TRUE)>>, <<>> }

LookupArgs ==
    { <<csv, make, model>> : csv \in SensorCsvs \ {NoCsv}, make \in MakeArgs,
                             model \in ModelArgs }

\* blocks handed to build_block_matrix
BlockArgs ==
    Rotations
    \cup { Mat(<< <<tv[1]>>, <<tv[2]>>, <<tv[3]>> >>) : tv \in Translations }
    \cup TShapes(1, 0, 1)
    \cup { Zeros(3, 2), Zeros(3, 4), Zeros(4, 4), Eye(4) }

\* folders of at most MaxFiles image files, in the order ImageList yields
\* them; the files of a folder have distinct names and distinct DJI IDs
Folders ==
    LET ImageFiles ==
            UNION { { [name |-> n,
                       last |-> [numeric |-> b, n |-> IF b THEN n ELSE 0],
                       opens |-> o, exif |-> x] :
                        b \in BOOLEAN, o \in BOOLEAN, x \in BOOLEAN } :
                    n \in 1..MaxFiles }
    IN  { fs \in UNION { [1..n -> ImageFiles] : n \in 0..MaxFiles } :
            \A i, j \in 1..Len(fs) : i < j => fs[i].name # fs[j].name }

\* what mrkread returns: one MrkData record per point of the .mrk file
MrkDicts ==
    { [k \in ks |-> [dtype |-> "MrkData", id |-> k, lat |-> 40 + k]] :
        ks \in SUBSET (1..MaxFiles) }

\* what get_images returns for the folders
ExifDicts == { get_images(fs).val : fs \in { f \in Folders : get_images(f).err = NoErr } }

\* the renamers and the call made on them: image lists of distinct files
Renamers ==
    { [impl |-> impl, method |-> method, delete_original |-> d, parallel |-> par,
       image_list |-> [i \in 1..Len(dts) |-> [file |-> i, date_time |-> dts[i]]],
       state |-> "running",
       pc |-> [i \in 1..Len(dts) |-> "todo"],
       named |-> [i \in 1..Len(dts) |-> NoneVal],
       wrote |-> [i \in 1..Len(dts) |-> FALSE],
       out |-> [i \in 1..Len(dts) |-> Ok(NoneVal)],
       order |-> <<>>] :
        impl \in {"rename.py", "renaming.py"},
        method \in {"rename", "rename_fast"},
        d \in BOOLEAN, par \in BOOLEAN,
        dts \in UNION { [1..n -> {NoneVal} \cup { Scalar(st) : st \in 1..MaxStamp }] :
                          n \in 1..MaxImages } }

-----------------------------------------------------------------------------
(* The Camera state machine *)

NoRq == <<>>

\* what a call leaves in the registers
FinishRq(name, a, o, f, q) ==
    /\ op' = name
    /\ arg' = a
    /\ ret' = o.val
    /\ err' = o.err
    /\ logged' = o.logged
    /\ from' = f
    /\ rq' = q
    /\ UNCHANGED <<disk, run>>

Finish(name, a, o, f) == FinishRq(name, a, o, f, NoRq)

\* a call that changes the camera: the outcome's value is the camera after
Mutate(name, a, o) ==
    /\ cam' = IF o.err = NoErr THEN o.val ELSE cam
    /\ Finish(name, a, [o EXCEPT !.val = NoneVal], NoneVal)

Init ==
    /\ cam = NoCamera
    /\ op = "none"
    /\ arg = NoneVal
    /\ ret = NoneVal
    /\ err = NoErr
    /\ logged = FALSE
    /\ from = NoneVal
    /\ rq = NoRq
    /\ disk = NoneVal
    /\ run = NoneVal

Construct ==
    /\ ~cam.exists
    /\ \E K \in KArgs, dist \in DistArgs, R \in {NoneVal, Rz90},
          t \in CamTArgs,
          e \in {NoneVal} \cup ExtArgs,
          path \in CalibPaths :
          Mutate("__init__", NoneVal,
                 Camera_init(Scalar(800), Scalar(600), K, dist, R, t, e, path))

UpdateK ==
    /\ cam.exists
    /\ \E K \in KArgs : Mutate("update_K", K, Ok(update_K(cam, K)))

UpdateDist ==
    /\ cam.exists
    /\ \E d \in DistArgs : Mutate("update_dist", d, Ok(update_dist(cam, d)))

UpdateExtrinsics ==
    /\ cam.exists
    /\ \E e \in ExtArgs : Mutate("update_extrinsics", e, update_extrinsics(cam, e))

ResetEO ==
    /\ cam.exists
    /\ Mutate("reset_EO", NoneVal, Ok(reset_EO(cam)))

ReadCalibrationFromFile ==
    /\ cam.exists
    /\ \E path \in CalibPaths \ {NoPath} :
          Mutate("read_calibration_from_file", NoneVal,
                 read_calibration_from_file(cam, path))

Read(name, o) ==
    /\ cam.exists
    /\ Finish(name, NoneVal, o, from)
    /\ UNCHANGED cam

ReadPose == Read("pose", Camera_pose(cam))

ReadC == Read("C", Camera_C(cam))

Readt == Read("t", Camera_t(cam))

ReadR == Read("R", Camera_R(cam))

ReadP == Read("P", Camera_P(cam))

ReadWidth == Read("width", Camera_width(cam))

ReadHeight == Read("height", Camera_height(cam))

ReadK == Read("K", Camera_K(cam))

ReadDist == Read("dist", Camera_dist(cam))

ReadExtrinsics == Read("extrinsics", Camera_extrinsics(cam))

FactorP ==
    /\ cam.exists
    /\ LET P == Camera_P(cam)
       IN  IF P.err # NoErr
           THEN Finish("factor_P", NoneVal, P, NoneVal)
           ELSE \E f \in RQ(Slice(P.val, 0, 3, 0, 3)) :
                   FinishRq("factor_P", NoneVal, factor_P(cam, f), NoneVal, f)
    /\ UNCHANGED cam

ProjectPoint ==
    /\ cam.exists
    /\ \E points3d \in PointArgs :
          Finish("project_point", points3d, project_point(cam, points3d), NoneVal)
    /\ UNCHANGED cam

Next ==
    \/ Construct
    \/ UpdateK
    \/ UpdateDist
    \/ UpdateExtrinsics
    \/ ResetEO
    \/ ReadCalibrationFromFile
    \/ ReadPose
    \/ ReadC
    \/ Readt
    \/ ReadR
    \/ ReadP
    \/ FactorP
    \/ ProjectPoint

Spec == Init /\ [][Next]_vars

-----------------------------------------------------------------------------
(* The pure operations, applied to an input drawn in the initial state.    *)
(* There op names the kind of input that arg holds; a conversion is also   *)
(* applied to what the opposite conversion has just returned.              *)

DefaultCamera ==
    Camera_init(Scalar(800), Scalar(600), NoneVal, NoneVal, NoneVal, NoneVal,
                NoneVal, NoPath).val

RtArgs ==
    { <<R, t>> : R \in CamRotations \cup {Eye(3)},
                 t \in UNION { TShapes(tv[1], tv[2], tv[3]) : tv \in Translations } }

GeomInit ==
    /\ cam = DefaultCamera
    /\ \/ op = "matrix" /\ arg \in GeomMatrices
       \/ op = "Rt" /\ arg \in RtArgs
       \/ op = "block" /\ arg \in BlockArgs
       \/ op = "path" /\ arg \in Files
       \/ op = "exif" /\ arg \in ExifArgs
       \/ op = "xml" /\ arg \in XmlArgs
       \/ op = "db" /\ arg \in LookupArgs
       \/ op = "RC" /\ arg \in PoseArgs
       \/ op = "file" /\ arg \in FormatArgs
       \/ op = "folder" /\ arg \in Folders
       \/ op = "dicts" /\ arg \in MrkDicts \X ExifDicts
    /\ ret = NoneVal
    /\ err = NoErr
    /\ logged = FALSE
    /\ from = NoneVal
    /\ rq = NoRq
    /\ disk = NoneVal
    /\ run = NoneVal

\* the last call was name, was given a drawn input, and returned
Returned(name) == op = name /\ err = NoErr /\ IsNone(from)

PoseToExtrinsics ==
    /\ \/ /\ op = "matrix"
          /\ Finish("pose_to_extrinsics", arg, pose_to_extrinsics(arg), NoneVal)
       \/ /\ Returned("extrinsics_to_pose")
          /\ Finish("pose_to_extrinsics", ret, pose_to_extrinsics(ret), arg)
    /\ UNCHANGED cam

ExtrinsicsToPose ==
    /\ \/ /\ op = "matrix"
          /\ Finish("extrinsics_to_pose", arg, extrinsics_to_pose(cam, arg), NoneVal)
       \/ /\ Returned("pose_to_extrinsics")
          /\ Finish("extrinsics_to_pose", ret, extrinsics_to_pose(cam, ret), arg)
    /\ UNCHANGED cam

RtToExtrinsics ==
    /\ op = "Rt"
    /\ Finish("Rt_to_extrinsics", arg, Rt_to_extrinsics(arg[1], arg[2]), NoneVal)
    /\ UNCHANGED cam

BuildBlockMatrix ==
    /\ op = "block"
    /\ Finish("build_block_matrix", arg, build_block_matrix(arg), NoneVal)
    /\ UNCHANGED cam

ReadOpencvCalibration ==
    /\ op = "path"
    /\ Finish("read_opencv_calibration", arg, read_opencv_calibration(arg), NoneVal)
    /\ UNCHANGED cam

GetIntrinsicsFromExif ==
    /\ op = "exif"
    /\ Finish("get_intrinsics_from_exif", arg,
              get_intrinsics_from_exif(arg[1], arg[2]), NoneVal)
    /\ UNCHANGED cam

ReadAgisoftXmlOpencv ==
    /\ op = "xml"
    /\ Finish("read_agisoft_xml_opencv", arg, read_agisoft_xml_opencv(arg), NoneVal)
    /\ UNCHANGED cam

CameraFromFile ==
    /\ op = "file"
    /\ Finish("camera_from_file", arg, camera_from_file(arg[1], arg[2]), NoneVal)
    /\ UNCHANGED cam

BuildPoseMatrix ==
    /\ op = "RC"
    /\ Finish("build_pose_matrix", arg, build_pose_matrix(arg[1], arg[2]), NoneVal)
    /\ UNCHANGED cam

\* SensorWidthDatabase().lookup(make, model) on the database read from csv
Lookup ==
    /\ op = "db"
    /\ Finish("lookup", arg,
              Then(SensorWidthDatabase(arg[1]), LAMBDA df : lookup(df, arg[2], arg[3])),
              NoneVal)
    /\ UNCHANGED cam

\* get_images(folder, image_ext) on the files ImageList finds
GetImages ==
    /\ op = "folder"
    /\ Finish("get_images", arg, get_images(arg), NoneVal)
    /\ UNCHANGED cam

\* merge_mrk_exif_data(mrk_dict, exif_dict)
MergeMrkExifData ==
    /\ op = "dicts"
    /\ Finish("merge_mrk_exif_data", arg,
              merge_mrk_exif_data(arg[1], arg[2]), NoneVal)
    /\ UNCHANGED cam

GeomNext ==
    \/ PoseToExtrinsics
    \/ ExtrinsicsToPose
    \/ RtToExtrinsics
    \/ BuildBlockMatrix
    \/ ReadOpencvCalibration
    \/ GetIntrinsicsFromExif
    \/ ReadAgisoftXmlOpencv
    \/ CameraFromFile
    \/ BuildPoseMatrix
    \/ Lookup
    \/ GetImages
    \/ MergeMrkExifData

SpecGeom == GeomInit /\ [][GeomNext]_vars

-----------------------------------------------------------------------------
(* The constructor, applied to arguments drawn in the initial state; the   *)
(* properties of the new camera are read afterwards.  There from holds the *)
(* arguments the camera was built from.                                    *)

\* the translations a constructor is given: every one of CamTranslations as
\* a 1-D array and as a column, the shapes of CamTArgs and a 3x3 array
CtorTArgs ==
    CamTArgs
    \cup { Vec(tv) : tv \in CamTranslations }
    \cup { Mat(<< <<tv[1]>>, <<tv[2]>>, <<tv[3]>> >>) : tv \in CamTranslations }
    \cup { Mat(<< <<1, 0, 1>>, <<0, 1, 1>>, <<1, 1, 0>> >>) }

CtorExtArgs ==
    {NoneVal, Eye(3)} \cup { Homog(Cyclic, tv) : tv \in CamTranslations }

\* K and dist are given together or not at all
CtorArgs ==
    { [width |-> Scalar(800), height |-> Scalar(600), K |-> kd[1],
       dist |-> kd[2], R |-> R, t |-> t, extrinsics |-> e, calib_path |-> path] :
        kd \in { <<NoneVal, NoneVal>>,
                 <<Mat(<< <<2, 0, 3>>, <<0, 2, 2>>, <<0, 0, 1>> >>),
                   Vec(<<1, 2, 3, 4>>)>> },
        R \in {NoneVal} \cup CamRotations,
        t \in CtorTArgs,
        e \in CtorExtArgs,
        path \in {NoPath, MissingFile, FileOf(Line(15)), FileOf(Line(19))} }

NewInit ==
    /\ cam = NoCamera
    /\ op = "args"
    /\ arg \in CtorArgs
    /\ ret = NoneVal
    /\ err = NoErr
    /\ logged = FALSE
    /\ from = NoneVal
    /\ rq = NoRq
    /\ disk = NoneVal
    /\ run = NoneVal

New ==
    /\ op = "args"
    /\ LET o == Camera_init(arg.width, arg.height, arg.K, arg.dist, arg.R,
                            arg.t, arg.extrinsics, arg.calib_path)
       IN  /\ cam' = IF o.err = NoErr THEN o.val ELSE cam
           /\ Finish("__init__", arg, [o EXCEPT !.val = NoneVal], arg)

NewNext ==
    \/ New
    \/ ReadWidth
    \/ ReadHeight
    \/ ReadK
    \/ ReadDist
    \/ ReadExtrinsics
    \/ ReadR
    \/ Readt

SpecNew == NewInit /\ [][NewNext]_vars

-----------------------------------------------------------------------------
(* One call of ImageRenamer.rename() or rename_fast().  The steps of        *)
(* copy_and_rename_fast / copy_and_rename_overlay on the images interleave  *)
(* freely when parallel is set (the workers of multiprocessing.Pool) and    *)
(* follow the list otherwise.                                              *)

RenameInit ==
    /\ cam = NoCamera
    /\ op = "none"
    /\ arg = NoneVal
    /\ ret = NoneVal
    /\ err = NoErr
    /\ logged = FALSE
    /\ from = NoneVal
    /\ rq = NoRq
    /\ run \in Renamers
    /\ disk = [orig |-> { run.image_list[i].file : i \in 1..Len(run.image_list) },
               dest |-> {}]

\* the call on the i-th image may take its next step
Scheduled(i) ==
    /\ run.state = "running"
    /\ run.parallel \/ \A j \in 1..(i - 1) : run.pc[j] = "done"

\* new_name, dic = name_from_exif(fname, base_name)
NameFromExif(i) ==
    /\ Scheduled(i)
    /\ run.pc[i] = "todo"
    /\ LET o == name_from_exif(run.image_list[i], "IMG")
       IN  run' = IF o.err = NoErr
                  THEN [run EXCEPT !.pc[i] = "named", !.named[i] = o.val]
                  ELSE [run EXCEPT !.pc[i] = "failed", !.out[i] = o]
    /\ UNCHANGED <<cam, op, arg, ret, err, logged, from, rq, disk>>

\* shutil.copyfile(fname, dst), which writes dst or raises; or
\* cv2.imwrite(dst, image), which writes dst, returns False without writing
\* or raises, its return value being dropped
Write(i) ==
    /\ Scheduled(i)
    /\ run.pc[i] = "named"
    /\ LET fast == func(run).fn = "copy_and_rename_fast"
           dst == run.named[i][1]
       IN  \/ /\ disk' = [disk EXCEPT !.dest =
                            { f \in @ : f[1] # dst } \cup {<<dst, run.image_list[i].file>>}]
              /\ run' = [run EXCEPT !.pc[i] = "written", !.wrote[i] = TRUE]
           \/ /\ ~fast
              /\ run' = [run EXCEPT !.pc[i] = "written"]
              /\ UNCHANGED disk
           \/ /\ run' = [run EXCEPT !.pc[i] = "failed",
                                     !.out[i] = Raise(IF fast THEN OSError ELSE cv2_error)]
              /\ UNCHANGED disk
    /\ UNCHANGED <<cam, op, arg, ret, err, logged, from, rq>>

\* if delete_original: fname.unlink(); then the function returns
Unlink(i) ==
    /\ Scheduled(i)
    /\ run.pc[i] = "written"
    /\ disk' = IF func(run).delete_original
               THEN [disk EXCEPT !.orig = @ \ {run.image_list[i].file}]
               ELSE disk
    /\ run' = [run EXCEPT !.pc[i] = "done",
                          !.out[i] = IF func(run).fn = "copy_and_rename_fast"
                                     THEN Ok(TRUE) ELSE Ok(run.named[i][2]),
                          !.order = Append(@, i)]
    /\ UNCHANGED <<cam, op, arg, ret, err, logged, from, rq>>

\* the call ends: it returns once every image is done, or it raises what
\* the first image that is not done has raised (the pool is terminated)
Return ==
    /\ run.state = "running"
    /\ LET n == Len(run.image_list)
           first == { i \in 1..n : run.pc[i] # "done"
                                    /\ \A j \in 1..(i - 1) : run.pc[j] = "done" }
           renaming_dict == IF run.parallel THEN imap(run.out, run.order)
                            ELSE [i \in 1..n |-> run.out[i].val]
       IN  \/ /\ first = {}
              /\ run' = [run EXCEPT !.state = "returned"]
              /\ op' = run.method
              /\ ret' = IF run.method = "rename" THEN renaming_dict ELSE TRUE
              /\ err' = NoErr
           \/ \E i \in first :
                 /\ run.pc[i] = "failed"
                 /\ run' = [run EXCEPT !.state = "raised"]
                 /\ op' = run.method
                 /\ ret' = NoneVal
                 /\ err' = run.out[i].err
    /\ UNCHANGED <<cam, arg, logged, from, rq, disk>>

RenameNext ==
    \/ \E i \in 1..MaxImages :
          /\ i <= Len(run.image_list)
          /\ NameFromExif(i) \/ Write(i) \/ Unlink(i)
    \/ Return

SpecRename == RenameInit /\ [][RenameNext]_vars

-----------------------------------------------------------------------------
(* Properties *)

\* the failure of an assert statement is what the specification calls a
\* ValidationError
ValidationError == AssertionError

\* a 4x4 double-precision matrix whose last row is exactly [0, 0, 0, 1]
IsHomogeneous(m) ==
    /\ m.shape = <<4, 4>>
    /\ m.dtype = "float64"
    /\ m.v[4] = <<0, 0, 0, 1>>

\* a pose or extrinsics matrix: homogeneous, its 3x3 block orthonormal with
\* determinant +1
IsRigid(m) ==
    /\ IsHomogeneous(m)
    /\ LET R == Slice(m, 0, 3, 0, 3)
       IN  Prod(R, Transpose(R)) = Eye(3) /\ Det3(R) = 1

\* the number of elements of an array
Size(a) ==
    IF Ndim(a) = 0 THEN 1
    ELSE IF Ndim(a) = 1 THEN a.shape[1]
    ELSE a.shape[1] * a.shape[2]

\* the elements of an array of one row or one column, in order
Flat(a) ==
    IF Ndim(a) = 1 THEN a.v
    ELSE IF a.shape[1] = 1 THEN a.v[1]
    ELSE [i \in 1..a.shape[1] |-> a.v[i][1]]

\* C1: in every reachable state of a Camera the stored extrinsics is a 4x4
\* double-precision matrix whose last row is exactly [0, 0, 0, 1].
C1_ExtrinsicsInvariant ==
    cam.exists => IsHomogeneous(cam._extrinsics)

C3_DerivedViewsCurrent ==
    cam.exists =>
        LET E == cam._extrinsics
            R == Slice(E, 0, 3, 0, 3)
            t == Slice(E, 0, 3, 3, 4)
        IN  /\ op = "R" => err = NoErr /\ ret = R
            /\ op = "t" => err = NoErr /\ ret = t
            /\ op = "pose" => /\ err = extrinsics_to_pose(cam, E).err
                              /\ ret = extrinsics_to_pose(cam, E).val
            /\ op \in {"pose", "C"} /\ IsHomogeneous(E) => err = NoErr
            /\ op = "C" /\ err = NoErr => ret = Neg(Prod(Transpose(R), t))
            /\ op = "P" /\ err = NoErr =>
                  ret = Prod(cam._K, Mat([i \in 1..3 |-> R.v[i] \o t.v[i]]))
            /\ op = "P" /\ IsHomogeneous(E) /\ ~IsNone(cam._K) => err = NoErr

\* C3 happens: the centre was read from a camera whose rotation moves its
\* translation
C3_Witness ==
    /\ op = "C"
    /\ err = NoErr
    /\ IsHomogeneous(cam._extrinsics)
    /\ ret # Neg(Slice(cam._extrinsics, 0, 3, 3, 4))

\* C4: for every valid pose M, extrinsics_to_pose(pose_to_extrinsics(M)) == M,
\* and for every valid extrinsics E, pose_to_extrinsics(extrinsics_to_pose(E))
\* == E.
C4_RoundTrip ==
    /\ op \in {"extrinsics_to_pose", "pose_to_extrinsics"}
    /\ ~IsNone(from)
    /\ IsRigid(from)
    => err = NoErr /\ ret = from

\* C4 happens: a pose with a rotation other than the identity and a
\* translation other than zero went through both conversions
C4_Witness ==
    /\ op = "extrinsics_to_pose"
    /\ ~IsNone(from)
    /\ IsRigid(from)
    /\ Slice(from, 0, 3, 0, 3) # Eye(3)
    /\ Slice(from, 0, 3, 3, 4) # Zeros(3, 1)
    /\ arg # from

\* C5: in factor_P, whatever the signs of the diagonal of the K0 the RQ step
\* returned, the sign matrix T has det(T) == +1 after the correction and the
\* returned K = K0 @ T has a strictly positive diagonal.
C5_SignNormalisation ==
    op = "factor_P" /\ err = NoErr =>
        /\ Det3(SignMatrix(rq[1])) = 1
        /\ \A i \in 1..3 : ret[1].v[i][i] > 0

\* C6: for a camera with an upper-triangular K of positive diagonal, a proper
\* rotation R and a translation t, factor_P returns K' == K, R' == R with
\* det(R') == +1, and t' == t, whichever RQ factorisation the collaborator
\* returned.
C6_FactorRecovers ==
    op = "factor_P" /\ err = NoErr /\ IsRigid(cam._extrinsics) =>
        /\ ret[1] = cam._K
        /\ Det3(ret[2]) = 1
        /\ ret[2] = Slice(cam._extrinsics, 0, 3, 0, 3)
        /\ ret[3] = Slice(cam._extrinsics, 0, 3, 3, 4)

\* C7: Rt_to_extrinsics(R, t) accepts t of shape (3,), (1, 3) or (3, 1) and
\* returns [[R, t], [0, 0, 0, 1]] for the same three numbers in all three
\* cases.
C7_AcceptsThreeShapes ==
    op = "Rt_to_extrinsics" /\ arg[2].shape \in {<<3>>, <<1, 3>>, <<3, 1>>} =>
        err = NoErr /\ ret = Homog(arg[1], Flat(arg[2]))

\* C8: Rt_to_extrinsics(R, t) fails with a ValidationError for every t that
\* does not hold exactly 3 elements; it never returns for such a t.
C8_RejectsOtherSizes ==
    op = "Rt_to_extrinsics" /\ Size(arg[2]) # 3 => err = ValidationError

\* C9: build_block_matrix called with a block that is neither 3x3 nor 3x1
\* fails with an error raised to the caller, and no operation logs an error
\* and then returns normally.
C9_NoSilentNone ==
    /\ op = "build_block_matrix" /\ arg.shape \notin {<<3, 3>>, <<3, 1>>} =>
          err # NoErr
    /\ logged => err # NoErr

\* C10: read_opencv_calibration on a one-line file fails with a ValueError for
\* every token count other than 15, 16 or 19; for these it returns width =
\* token 0, height = token 1, K = tokens 2..10 reshaped row-major and dist =
\* the remaining tokens in file order.
C10_TokenCount ==
    op = "read_opencv_calibration" /\ arg.exists =>
        LET d == arg.tokens
            n == Len(d)
        IN  IF n \in {15, 16, 19}
            THEN /\ err = NoErr
                 /\ ret = << Scalar(d[1]), Scalar(d[2]),
                             Mat(<< <<d[3], d[4], d[5]>>, <<d[6], d[7], d[8]>>,
                                    <<d[9], d[10], d[11]>> >>),
                             Vec([i \in 1..(n - 11) |-> d[11 + i]]) >>
            ELSE err = ValueError

\* C11: after a Camera has read a calibration source, its width, height, K
\* and dist getters return the values parsed from that source (width = token
\* 0, height = token 1, K = tokens 2..10, dist = the remaining tokens),
\* whatever width and height the constructor was given.
C11_GettersReturnParsed ==
    cam.exists /\ from.calib_path.given =>
        LET d == from.calib_path.tokens
        IN  /\ op = "width" => ret = Scalar(d[1])
            /\ op = "height" => ret = Scalar(d[2])
            /\ op = "K" => ret = Mat(<< <<d[3], d[4], d[5]>>, <<d[6], d[7], d[8]>>,
                                        <<d[9], d[10], d[11]>> >>)
            /\ op = "dist" => ret = Vec([i \in 1..(Len(d) - 11) |-> d[11 + i]])

\* C12: get_intrinsics_from_exif logs and returns None, raising nothing,
\* whenever one of the five EXIF keys is absent from the mapping or the
\* sensor-width lookup raises LookupError; otherwise it returns
\* (width, height, K, dist) with focal_px = max(w, h) * focal_mm / width_mm,
\* the principal point at the image centre and five zeros for dist.
C12_ExifFailsSilently ==
    op = "get_intrinsics_from_exif" /\ arg[2].exists =>
        LET exif == arg[1]
            found == lookup(SensorWidthDatabase(arg[2]).val, exif.Make, exif.Model)
        IN  IF exif.keys # ExifKeys \/ found.err = LookupError
            THEN err = NoErr /\ logged /\ ret = NoneVal
            ELSE /\ err = NoErr
                 /\ ret = << Scalar(640), Scalar(480),
                             Mat(<< <<(640 * 4) \div found.val, 0, 320>>,
                                    <<0, (640 * 4) \div found.val, 240>>,
                                    <<0, 0, 1>> >>),
                             Vec(<<0, 0, 0, 0, 0>>) >>

\* a distortion vector of the data model: 4, 5 or 8 numbers
IsDist(d) == d.dtype = "float64" /\ d.shape \in {<<4>>, <<5>>, <<8>>}

\* C13: every calibration record a loader returns (plain text, Agisoft
\* XML, EXIF estimate), and the dist of every Camera built from one, holds a
\* distortion vector of length 4, 5 or 8 whose entries are all numbers.
C13_DistLength ==
    /\ /\ op \in {"read_opencv_calibration", "read_agisoft_xml_opencv",
                   "get_intrinsics_from_exif"}
       /\ err = NoErr
       /\ ~logged
       => IsDist(ret[4])
    /\ op = "camera_from_file" /\ err = NoErr => IsDist(ret._dist)

\* C14: read_agisoft_xml_opencv, and camera_from_file with format
\* "agisoft-opencv", fail with a ValueError when the type_id of the 4th
\* child of the root is not "opencv-matrix"; camera_from_file fails with a
\* ValueError for every other format name; no Camera is returned.
C14_FormatValueError ==
    /\ op = "read_agisoft_xml_opencv" /\ arg.type_id # "opencv-matrix" =>
          err = ValueError
    /\ /\ op = "camera_from_file"
       /\ arg[2] # "agisoft-opencv" \/ arg[1].type_id # "opencv-matrix"
       => err = ValueError /\ ret = NoneVal

\* C15: build_pose_matrix(R, C) returns [[R, C], [0, 0, 0, 1]] for every 3x3
\* R and every C of shape (3,), (1, 3) or (3, 1), and raises ValueError when
\* R is not 3x3 or C has any other shape.
C15_BuildPoseMatrix ==
    op = "build_pose_matrix" =>
        IF arg[1].shape = <<3, 3>> /\ arg[2].shape \in {<<3>>, <<1, 3>>, <<3, 1>>}
        THEN err = NoErr /\ ret = Homog(arg[1], Flat(arg[2]))
        ELSE err = ValueError

\* C16: project_point(points3d) fails with a ValidationError, before any
\* projection is attempted, for every points array that is not n x 3 (shape
\* (n, 2), shape (n, 4), one-dimensional); on a camera that holds a K and
\* valid extrinsics it returns an array of shape (n, 2) for shape (n, 3),
\* the empty (0, 2) array for shape (0, 3).
C16_ProjectPointShape ==
    op = "project_point" =>
        IF Ndim(arg) # 2 \/ arg.shape[2] # 3
        THEN err = ValidationError
        ELSE ~IsNone(cam._K) /\ IsHomogeneous(cam._extrinsics) =>
                err = NoErr /\ ret.shape = <<arg.shape[1], 2>>

\* the three numbers tv as a 3x1 column
Column(tv) == Mat(<< <<tv[1]>>, <<tv[2]>>, <<tv[3]>> >>)

\* C17: a newly constructed Camera takes its exterior orientation from one
\* source, in priority order: the extrinsics argument if given, otherwise
\* Rt_to_extrinsics(R, t) if R and t are both given, otherwise the 4x4
\* identity; the extrinsics argument wins over (R, t), and reading a
\* calibration file in the constructor does not change it.
C17_ExteriorOrientationSource ==
    cam.exists =>
        cam._extrinsics =
            IF ~IsNone(from.extrinsics) THEN from.extrinsics
            ELSE IF ~IsNone(from.R) /\ ~IsNone(from.t)
                 THEN Rt_to_extrinsics(from.R, from.t).val
                 ELSE Eye(4)

\* C17 happens: a camera was built from an extrinsics matrix, an (R, t) that
\* gives another matrix, and a calibration file
C17_Witness ==
    /\ cam.exists
    /\ op = "extrinsics"
    /\ ~IsNone(from.extrinsics) /\ ~IsNone(from.R) /\ ~IsNone(from.t)
    /\ from.calib_path.given
    /\ IsHomogeneous(from.extrinsics)
    /\ ret # Rt_to_extrinsics(from.R, from.t).val

\* C18: for every 3x3 rotation R and every translation t (three numbers)
\* that Rt_to_extrinsics accepts, a Camera whose extrinsics is
\* Rt_to_extrinsics(R, t) returns R from .R and t as a 3x1 column from .t.
C18_RtReadBack ==
    /\ cam.exists
    /\ IsNone(from.extrinsics) /\ ~IsNone(from.R) /\ ~IsNone(from.t)
    /\ Size(from.t) = 3
    => /\ op = "R" => err = NoErr /\ ret = from.R
       /\ op = "t" => err = NoErr /\ ret = Column(Flat(from.t))

\* C18 happens: t was read back from a camera built from a rotation that
\* moves the 1-D translation it was given
C18_Witness ==
    /\ cam.exists
    /\ op = "t"
    /\ IsNone(from.extrinsics) /\ ~IsNone(from.R) /\ ~IsNone(from.t)
    /\ from.t.shape = <<3>>
    /\ Prod(from.R, ret) # ret

\* C19: for every extrinsics E = [[R, t], [0, 0, 0, 1]], extrinsics_to_pose(E)
\* is [[R^T, -R^T t], [0, 0, 0, 1]], so the centre is C = -R^T t, and for an
\* orthonormal R the pose is the inverse of E: pose . E == identity.
C19_PoseClosedForm ==
    op = "extrinsics_to_pose" /\ IsHomogeneous(arg) =>
        LET R == Slice(arg, 0, 3, 0, 3)
            t == Slice(arg, 0, 3, 3, 4)
        IN  /\ err = NoErr
            /\ ret = Homog(Transpose(R), Flat(Neg(Prod(Transpose(R), t))))
            /\ Prod(R, Transpose(R)) = Eye(3) => Prod(ret, arg) = Eye(4)

\* C19 happens: the pose of an orthonormal extrinsics whose rotation moves
\* its translation was computed
C19_Witness ==
    /\ op = "extrinsics_to_pose"
    /\ err = NoErr
    /\ IsRigid(arg)
    /\ Slice(ret, 0, 3, 3, 4) # Neg(Slice(arg, 0, 3, 3, 4))
    /\ Slice(ret, 0, 3, 3, 4) # Slice(arg, 0, 3, 3, 4)

\* C20: each Camera operation changes only its own field: reset_EO sets the
\* extrinsics to the 4x4 identity and leaves width, height, K and dist;
\* update_K replaces K and update_dist replaces dist for any argument,
\* without failing, and leave every other field; factor_P, project_point
\* and the derived getters change no field.
C20_FrameEffects ==
    [][/\ op' = "reset_EO" =>
             err' = NoErr /\ cam' = [cam EXCEPT !._extrinsics = Eye(4)]
       /\ op' = "update_K" => err' = NoErr /\ cam' = [cam EXCEPT !._K = arg']
       /\ op' = "update_dist" =>
             err' = NoErr /\ cam' = [cam EXCEPT !._dist = arg']
       /\ op' \in {"factor_P", "project_point", "pose", "C", "t", "R", "P"} =>
             cam' = cam]_vars

\* C20 happens: K was replaced by None on a camera that holds a distortion
\* vector and extrinsics other than the identity
C20_Witness ==
    /\ op = "update_K"
    /\ err = NoErr
    /\ IsNone(cam._K)
    /\ ~IsNone(cam._dist)
    /\ IsHomogeneous(cam._extrinsics)
    /\ cam._extrinsics # Eye(4)

\* C21: constructing a Camera with a calib_path that names a file that does
\* not exist (the other arguments being acceptable) raises FileNotFoundError,
\* and no Camera is produced.
C21_MissingFileError ==
    /\ op = "__init__"
    /\ arg.calib_path.given /\ ~arg.calib_path.exists
    /\ IsNone(arg.R) \/ IsNone(arg.t) \/ Rt_to_extrinsics(arg.R, arg.t).err = NoErr
    => err = FileNotFoundError /\ ~cam.exists

\* C22: SensorWidthDatabase.lookup(make, model) returns the sensor width of
\* the single database row whose maker is the lower-cased first token of make
\* and whose model is the lower-cased model; for every other input (no
\* matching row, several matching rows, a make without a token) it fails
\* with a LookupError and with no error of another type.
C22_LookupSingleRow ==
    op = "lookup" =>
        LET rows == arg[1].rows
            make == arg[2]
            matches ==
                { i \in 1..Len(rows) :
                    /\ Len(make) > 0
                    /\ Lower(rows[i].CameraMaker) = Lower(<<make[1]>>)
                    /\ Lower(rows[i].CameraModel) = Lower(arg[3]) }
        IN  IF Cardinality(matches) = 1
            THEN err = NoErr /\ \A i \in matches : ret = rows[i].SensorWidth
            ELSE IsInstance(err, LookupError)

\* C22 happens: the width of a camera was found from a make of two words in
\* capitals
C22_Witness ==
    /\ op = "lookup"
    /\ err = NoErr
    /\ Len(arg[2]) = 2
    /\ arg[2][1].caps
    /\ Len(arg[1].rows) = 3
    /\ ret = 6

\* C23: for every projection matrix P whose left 3x3 block factors as
\* K0 @ R0 with an invertible K0, the (K, R, t) that factor_P returns
\* reassembles P: K @ R == P[:, :3] and K @ t == P[:, 3], the sign matrix T
\* applied to both factors satisfying T @ T == identity.
C23_FactorReassembles ==
    op = "factor_P" /\ err = NoErr =>
        LET P == Camera_P(cam).val
            T == SignMatrix(rq[1])
        IN  /\ Prod(rq[1], rq[2]) = Slice(P, 0, 3, 0, 3)
            /\ Prod(T, T) = Eye(3)
            /\ Prod(ret[1], ret[2]) = Slice(P, 0, 3, 0, 3)
            /\ Prod(ret[1], ret[3]) = Slice(P, 0, 3, 3, 4)

\* C23 happens: a P with a translation was factored from an RQ pair whose
\* signs were changed on both factors
C23_Witness ==
    /\ op = "factor_P"
    /\ err = NoErr
    /\ SignMatrix(rq[1]) # Eye(3)
    /\ ret[3] # Zeros(3, 1)
    /\ ret[1] # cam._K

\* the distortion vector [k1, k2, p1, p2, k3?, k4?] of the distortion tokens d
AgisoftDist(d) ==
    Vec(<<d[1], d[2], d[4], d[3]>>
        \o (IF Len(d) \in {5, 6} THEN <<d[5]>> ELSE <<>>)
        \o (IF Len(d) = 6 THEN <<d[6]>> ELSE <<>>))

\* C24: the Agisoft XML loader maps the distortion tokens dist_ to
\* k1 = dist_[0], k2 = dist_[1], p1 = dist_[3], p2 = dist_[2]; the returned
\* dist holds a k3 entry exactly when len(dist_) is 5 or 6 and a k4 entry
\* exactly when it is 6 (for 4 tokens it is [k1, k2, p1, p2] only).
C24_AgisoftDistMapping ==
    op = "read_agisoft_xml_opencv" /\ err = NoErr => ret[4] = AgisoftDist(arg.dist)

\* rename() or rename_fast() has returned
Renamed == op \in {"rename", "rename_fast"} /\ err = NoErr

C26_OriginalsFollowDeleteOriginal ==
    Renamed =>
        IF run.delete_original
        THEN disk.orig = {}
        ELSE disk.orig = { run.image_list[i].file : i \in 1..Len(run.image_list) }

\* C27: in copy_and_rename_fast and copy_and_rename_overlay the original is
\* deleted only after the renamed copy was written: in no execution, one
\* whose copy or write fails (raising or returning a failure status)
\* included, is an original gone that has no copy in the destination.
C27_DeletedOnlyAfterWritten ==
    \A i \in 1..Len(run.image_list) :
        run.image_list[i].file \notin disk.orig =>
            /\ run.wrote[i]
            /\ \E f \in disk.dest : f[1] = run.named[i][1]

\* C29: after rename_fast() or rename() over distinct images the
\* destination folder holds one file per image: no two images were written
\* to one destination name, and every copy that was written is there.
C29_OneDestinationPerImage ==
    Renamed =>
        /\ \A i, j \in 1..Len(run.image_list) :
              i # j => run.named[i][1] # run.named[j][1]
        /\ \A i \in 1..Len(run.image_list) :
              run.wrote[i] => <<run.named[i][1], run.image_list[i].file>> \in disk.dest

\* C28: merge_mrk_exif_data raises nothing for every mrk_dict that mrkread
\* returns and every exif_dict that get_images returns (whose values may be
\* None): the merged dict has the keys of mrk_dict, a key absent from
\* exif_dict maps to None and every other key maps to the combined record.
C28_MergeRaisesNothing ==
    op = "merge_mrk_exif_data" =>
        /\ err = NoErr
        /\ DOMAIN ret = DOMAIN arg[1]
        /\ \A key \in DOMAIN arg[1] :
              IF key \in DOMAIN arg[2]
              THEN /\ ~IsNone(ret[key])
                   /\ ret[key].id = arg[1][key].id
                   /\ ret[key].lat_mrk = arg[1][key].lat
                   /\ ~IsNone(arg[2][key])
                   /\ ret[key].name_exif = arg[2][key].name
              ELSE IsNone(ret[key])

\* the file read without a failure: it opens, its name ends with a number
\* and its EXIF position is read
ReadsWell(file) == file.opens /\ file.last.numeric /\ file.exif

\* C30: in get_images a failure while reading one image touches the entry
\* of that image only: get_images returns, every key of the result is the
\* DJI ID of a file of the folder, every image read without a failure maps
\* to its ExifData, and only IDs of files that failed map to None.
C30_FailureTouchesOneEntry ==
    op = "get_images" =>
        /\ err = NoErr
        /\ \A key \in DOMAIN ret :
              \E k \in 1..Len(arg) : arg[k].last.numeric /\ arg[k].last.n = key
        /\ \A k \in 1..Len(arg) :
              ReadsWell(arg[k]) =>
                  /\ arg[k].last.n \in DOMAIN ret
                  /\ ret[arg[k].last.n] = ExifData(arg[k].last.n, arg[k].name)
        /\ \A key \in DOMAIN ret :
              IsNone(ret[key]) =>
                  \E k \in 1..Len(arg) :
                      /\ ~ReadsWell(arg[k])
                      /\ arg[k].last.numeric /\ arg[k].last.n = key

=============================================================================
